---- MODULE Spec2Model ----
(***************************************************************************)
(* Investment Growth Calculator: the Calculate handler of                  *)
(* investment_calc.py and of investment_calc_branded_v2.py.                *)
(*                                                                         *)
(* Every amount in the scripts is a Python float (IEEE-754 binary64).      *)
(* The model keeps that arithmetic: a float is a sign, a 53-bit mantissa   *)
(* and a binary exponent; +, -, *, / and ** (1/12) round to nearest, ties  *)
(* to even, as the interpreter does.  Mantissas and the exact intermediate *)
(* results are natural numbers held as little-endian sequences of limbs.   *)
(* Overflow to infinity and subnormal results are outside the model: the   *)
(* invariant InNormalRange records that no reachable value comes near.     *)
(***************************************************************************)
EXTENDS Integers, Sequences, FiniteSets, TLC

(***************************************************************************)
(* Natural numbers of arbitrary size: <<l1, ..., ln>> is                   *)
(* l1 + l2*Base + ... + ln*Base^(n-1), with ln # 0; zero is << >>.         *)
(***************************************************************************)
LimbBits == 15

Base == 2 ^ LimbBits

Pow2(n) == 2 ^ n

\* the position of the highest non-zero limb, 0 when there is none
TopLimb(a) ==
  CHOOSE i \in 0..Len(a) :
    (i = 0 \/ a[i] # 0) /\ \A j \in (i + 1)..Len(a) : a[j] = 0

\* drop the zero limbs at the top
Trim(a) == SubSeq(a, 1, TopLimb(a))

RECURSIVE BigFromInt(_)
BigFromInt(n) ==
  IF n = 0 THEN << >> ELSE <<n % Base>> \o BigFromInt(n \div Base)

Limb(a, i) == IF i <= Len(a) THEN a[i] ELSE 0

Max(m, n) == IF m >= n THEN m ELSE n

Min(m, n) == IF m <= n THEN m ELSE n

\* Carry propagation over positions lo..hi of a sequence c of integers,
\* by halves so that the recursion stays shallow: <<limbs, carry out>>.
RECURSIVE CarryRange(_, _, _, _)
CarryOne(v) == << <<v % Base>>, v \div Base >>

CarryAppend(limbs, high) == << limbs \o high[1], high[2] >>

CarryUpper(low, c, lo, hi) ==
  IF Len(low) = 2
  THEN CarryAppend(low[1], CarryRange(c, lo, hi, low[2]))
  ELSE low

CarryRange(c, lo, hi, carry) ==
  IF lo > hi THEN << << >>, carry >>
  ELSE IF lo = hi THEN CarryOne(c[lo] + carry)
  ELSE CarryUpper(CarryRange(c, lo, (lo + hi) \div 2, carry),
                  c, (lo + hi) \div 2 + 1, hi)

Carried(r) == Trim(r[1] \o BigFromInt(r[2]))

\* the number c[1] + c[2]*Base + ... for integers c[i] (negative ones allowed
\* as long as the total is not negative)
Normalize(c) == Carried(CarryRange(c, 1, Len(c), 0))

\* Operands are evaluated before the operation that uses them starts, which
\* bounds the depth of evaluation; Ready(a) holds of every sequence.
Ready(a) == Len(a) >= 0

BigAdd(a, b) ==
  IF Ready(a) /\ Ready(b)
  THEN Normalize([i \in 1..Max(Len(a), Len(b)) |-> Limb(a, i) + Limb(b, i)])
  ELSE << >>

\* a - b for a >= b
BigSub(a, b) ==
  IF Ready(a) /\ Ready(b)
  THEN Normalize([i \in 1..Len(a) |-> a[i] - Limb(b, i)])
  ELSE << >>

RECURSIVE CmpRec(_, _, _)
CmpRec(a, b, i) ==
  IF i = 0 THEN 0
  ELSE IF a[i] > b[i] THEN 1
  ELSE IF a[i] < b[i] THEN -1
  ELSE CmpRec(a, b, i - 1)

\* -1, 0 or 1 as a < b, a = b, a > b
BigCmp(a, b) ==
  IF Len(a) > Len(b) THEN 1
  ELSE IF Len(a) < Len(b) THEN -1
  ELSE CmpRec(a, b, Len(a))

\* a * k for 0 <= k < Base
BigMulSmall(a, k) ==
  IF Ready(a) THEN Normalize([i \in 1..Len(a) |-> a[i] * k]) ELSE << >>

ShiftLimbs(a, n) == IF a = << >> THEN << >> ELSE [i \in 1..n |-> 0] \o a

\* sum over i in lo..hi of the low limbs of a[i] * b[k + 1 - i], plus the
\* high limbs of a[i] * b[k - i]: column k of the product a * b
RECURSIVE Column(_, _, _, _, _)
Column(a, b, k, lo, hi) ==
  IF lo > hi THEN 0
  ELSE IF lo = hi
  THEN ((a[lo] * Limb(b, k + 1 - lo)) % Base)
       + (IF k - lo >= 1 THEN (a[lo] * Limb(b, k - lo)) \div Base ELSE 0)
  ELSE Column(a, b, k, lo, (lo + hi) \div 2)
       + Column(a, b, k, (lo + hi) \div 2 + 1, hi)

Columns(cols) == IF Ready(cols) THEN Normalize(cols) ELSE << >>

BigMul(a, b) ==
  IF Ready(a) /\ Ready(b)
  THEN Columns([k \in 1..(Len(a) + Len(b)) |-> Column(a, b, k, 1, Min(k, Len(a)))])
  ELSE << >>

RECURSIVE SmallBitLen(_)
SmallBitLen(n) == IF n = 0 THEN 0 ELSE 1 + SmallBitLen(n \div 2)

BitLen(a) ==
  IF a = << >> THEN 0
  ELSE (Len(a) - 1) * LimbBits + SmallBitLen(a[Len(a)])

\* a * 2^n
ShiftLeft(a, n) ==
  ShiftLimbs(BigMulSmall(a, Pow2(n % LimbBits)), n \div LimbBits)

DropLimbs(a, d) == IF d >= Len(a) THEN << >> ELSE SubSeq(a, d + 1, Len(a))

\* floor(b / 2^r) for r < LimbBits
ShiftBits(b, r) ==
  Trim([i \in 1..Len(b) |->
          (b[i] \div Pow2(r)) + (Limb(b, i + 1) % Pow2(r)) * Pow2(LimbBits - r)])

\* floor(a / 2^n)
ShiftRight(a, n) == ShiftBits(DropLimbs(a, n \div LimbBits), n % LimbBits)

IsOdd(a) == a # << >> /\ a[1] % 2 = 1

Bit(a, i) == (Limb(a, (i \div LimbBits) + 1) \div Pow2(i % LimbBits)) % 2

\* quotient q2 and remainder r2 once a bit is brought down: subtract d if it fits
DivDecide(q2, r2, d) ==
  IF BigCmp(r2, d) >= 0
  THEN <<BigAdd(q2, <<1>>), BigSub(r2, d)>>
  ELSE <<q2, r2>>

\* one step of binary long division: bring down bit i of a
DivStep(a, d, i, qr) ==
  DivDecide(ShiftLeft(qr[1], 1),
            BigAdd(ShiftLeft(qr[2], 1), BigFromInt(Bit(a, i))), d)

\* the steps for bits hi, hi - 1, ..., lo of a
RECURSIVE DivModRange(_, _, _, _, _)
DivLower(upper, a, d, hi, lo) ==
  IF Len(upper) = 2 THEN DivModRange(a, d, hi, lo, upper) ELSE upper

DivModRange(a, d, hi, lo, qr) ==
  IF hi < lo THEN qr
  ELSE IF hi = lo THEN DivStep(a, d, hi, qr)
  ELSE DivLower(DivModRange(a, d, hi, (hi + lo) \div 2 + 1, qr),
                a, d, (hi + lo) \div 2, lo)

\* <<quotient, remainder>> of a by d # 0
BigDivMod(a, d) == DivModRange(a, d, BitLen(a) - 1, 0, <<<< >>, << >>>>)

\* q, or q + 1 when the discarded part is above a half (c = 1) or is a half
\* (c = 0) and q is odd
RoundUp(q, c) ==
  IF c = 1 \/ (c = 0 /\ IsOdd(q)) THEN BigAdd(q, <<1>>) ELSE q

RoundQuotient(a, n, q) ==
  RoundUp(q, BigCmp(BigSub(a, ShiftLeft(q, n)), ShiftLeft(<<1>>, n - 1)))

\* a / 2^n rounded to the nearest integer, ties to even
RoundShift(a, n) == IF n = 0 THEN a ELSE RoundQuotient(a, n, ShiftRight(a, n))

(***************************************************************************)
(* Python floats.  [s, m, e] is (-1)^s * m * 2^e with 2^52 <= m < 2^53;    *)
(* zero is [s |-> 0, m |-> << >>, e |-> 0].                                *)
(***************************************************************************)
MantBits == 53

Zero == [s |-> 0, m |-> << >>, e |-> 0]

\* rounding may carry into a 54th bit
Renormalize(s, q, e) ==
  IF BitLen(q) > MantBits
  THEN [s |-> s, m |-> ShiftRight(q, 1), e |-> e + 1]
  ELSE [s |-> s, m |-> q, e |-> e]

RoundBits(s, M, e, L) ==
  IF L <= MantBits
  THEN [s |-> s, m |-> ShiftLeft(M, MantBits - L), e |-> e - (MantBits - L)]
  ELSE Renormalize(s, RoundShift(M, L - MantBits), e + (L - MantBits))

\* the float nearest to (-1)^s * M * 2^e
Round(s, M, e) == IF M = << >> THEN Zero ELSE RoundBits(s, M, e, BitLen(M))

FromInt(n) == Round(0, BigFromInt(n), 0)

One == FromInt(1)

IsZero(x) == x.m = << >>

FNeg(x) == IF IsZero(x) THEN x ELSE [x EXCEPT !.s = 1 - x.s]

\* -1, 0, 1 comparing magnitudes
MagCmp(x, y) ==
  IF IsZero(x) /\ IsZero(y) THEN 0
  ELSE IF IsZero(x) THEN -1
  ELSE IF IsZero(y) THEN 1
  ELSE IF x.e > y.e THEN 1
  ELSE IF x.e < y.e THEN -1
  ELSE BigCmp(x.m, y.m)

\* -1, 0, 1 as x < y, x = y, x > y
FCmp(x, y) ==
  IF x.s = 0 /\ y.s = 0 THEN MagCmp(x, y)
  ELSE IF x.s = 1 /\ y.s = 1 THEN MagCmp(y, x)
  ELSE IF IsZero(x) /\ IsZero(y) THEN 0
  ELSE IF x.s = 1 THEN -1 ELSE 1

FLe(x, y) == FCmp(x, y) <= 0

\* x + y with the mantissa of x already shifted to the exponent of y
AddAligned(x, y, xm) ==
  Round(x.s, IF x.s = y.s THEN BigAdd(xm, y.m) ELSE BigSub(xm, y.m), y.e)

\* x + y, x of the larger magnitude
AddOrdered(x, y) ==
  IF IsZero(y) \/ x.e - y.e > MantBits + 2 THEN x
  ELSE AddAligned(x, y, ShiftLeft(x.m, x.e - y.e))

FAdd(x, y) == IF MagCmp(x, y) >= 0 THEN AddOrdered(x, y) ELSE AddOrdered(y, x)

FSub(x, y) == FAdd(x, FNeg(y))

FMul(x, y) ==
  IF IsZero(x) \/ IsZero(y) THEN Zero
  ELSE Round((x.s + y.s) % 2, BigMul(x.m, y.m), x.e + y.e)

\* the quotient qr[1] with a sticky bit for a non-zero remainder qr[2]
DivRound(s, qr, e) ==
  Round(s, BigAdd(ShiftLeft(qr[1], 1), IF qr[2] = << >> THEN << >> ELSE <<1>>), e)

\* x / y for y # 0: the quotient carries three guard bits and a sticky bit
FDiv(x, y) ==
  IF IsZero(x) THEN Zero
  ELSE DivRound((x.s + y.s) % 2,
                BigDivMod(ShiftLeft(x.m, MantBits + 3), y.m),
                x.e - y.e - (MantBits + 3) - 1)

Square(a) == BigMul(a, a)

Cube(a) == BigMul(Square(a), a)

\* a^12
Pow12(a) == Square(Square(Cube(a)))

\* the largest q >= q0 that differs from q0 in bits hi..lo only and has
\* q^12 <= t, found bit by bit from the top
RECURSIVE RootBits(_, _, _, _)
RootTry(t, q, try) ==
  IF Ready(try) /\ BigCmp(Pow12(try), t) <= 0 THEN try ELSE q

RootLower(upper, t, hi, lo) ==
  IF Len(upper) > 0 THEN RootBits(t, hi, lo, upper) ELSE upper

RootBits(t, hi, lo, q) ==
  IF hi < lo THEN q
  ELSE IF hi = lo THEN RootTry(t, q, BigAdd(q, ShiftLeft(<<1>>, hi)))
  ELSE RootLower(RootBits(t, hi, (hi + lo) \div 2 + 1, q), t, (hi + lo) \div 2, lo)

\* With f the floor of the root of t = m * 2^(11*52), f * 2^-52 is the root
\* rounded down; it is rounded up when the midpoint (2f + 1) * 2^-53 is still
\* below the root, that is when (2f + 1)^12 < t * 2^12.
RootNearest(t, f) ==
  IF Ready(f)
  THEN Round(0, RoundUp(f, BigCmp(ShiftLeft(t, 12),
                                  Pow12(BigAdd(ShiftLeft(f, 1), <<1>>)))),
             1 - MantBits)
  ELSE Zero

RootFloor(t) ==
  IF Ready(t)
  THEN RootNearest(t, RootBits(t, MantBits - 2, 0, ShiftLeft(<<1>>, MantBits - 1)))
  ELSE Zero

\* x ** (1/12) for a float 1 <= x < 2: the float nearest to the twelfth
\* root of x
Root12(x) == RootFloor(ShiftLeft(x.m, 11 * (MantBits - 1)))

\* the float nearest to the decimal literal n/d, as the parser reads it
Literal(n, d) == FDiv(FromInt(n), FromInt(d))

(***************************************************************************)
(* f"R {x:,.2f}": the amount rounded to cents (nearest, ties to even, of   *)
(* the exact binary value) and written with thousands separators.  A       *)
(* string is a sequence of characters.                                     *)
(***************************************************************************)
\* the amount in cents, for x >= 0
Cents(x) ==
  IF IsZero(x) THEN << >>
  ELSE IF x.e >= 0 THEN ShiftLeft(BigMulSmall(x.m, 100), x.e)
  ELSE IF 0 - x.e > MantBits + 8 THEN << >>
  ELSE RoundShift(BigMulSmall(x.m, 100), 0 - x.e)

DigitChar(d) == <<"0", "1", "2", "3", "4", "5", "6", "7", "8", "9">>[d + 1]

SmallValue(a) == IF a = << >> THEN 0 ELSE a[1]

\* the decimal digits of a, most significant first; << >> for zero
RECURSIVE Digits(_)
DigitsThen(qr) == Append(Digits(qr[1]), SmallValue(qr[2]))

Digits(a) == IF a = << >> THEN << >> ELSE DigitsThen(BigDivMod(a, <<10>>))

GroupChar(ds, fromRight) ==
  IF fromRight % 4 = 3 THEN ","
  ELSE DigitChar(ds[Len(ds) - (fromRight - fromRight \div 4)])

\* digits with a comma before every group of three counted from the right
Grouped(ds) ==
  [i \in 1..(Len(ds) + (Len(ds) - 1) \div 3) |->
     GroupChar(ds, Len(ds) + (Len(ds) - 1) \div 3 - i)]

\* qr: the cents divided by 100, whole rands and remaining cents
FormatParts(qr) ==
  <<"R", " ">> \o Grouped(IF qr[1] = << >> THEN <<0>> ELSE Digits(qr[1]))
    \o <<".", DigitChar(SmallValue(qr[2]) \div 10), DigitChar(SmallValue(qr[2]) % 10)>>

FormatRand(x) == FormatParts(BigDivMod(Cents(x), <<100>>))

(***************************************************************************)
(* The two pages.  Both read the same four sidebar widgets and run the     *)
(* same handler when Calculate is pressed; each script is translated from  *)
(* its own file.                                                           *)
(***************************************************************************)
MaxInitial == 1

MaxMonthly == 1

MaxEscalation == 1

\* what the user may have typed into the number inputs (all >= 0)
InitialChoices == {FromInt(1000 * i) : i \in 0..MaxInitial}

MonthlyChoices == {FromInt(1000 * j) : j \in 0..MaxMonthly}

EscalationChoices == {FromInt(6 * k) : k \in 0..MaxEscalation}

Hundred == FromInt(100)

return_options ==
  [o \in {"Cash (6%)", "Balanced (10%)", "Equity (13%)"} |->
     CASE o = "Cash (6%)" -> Literal(6, 100)
       [] o = "Balanced (10%)" -> Literal(10, 100)
       [] o = "Equity (13%)" -> Literal(13, 100)]

\* x ** (1/12) on the bases the pages raise: 1 + each annual return
PowTwelfth ==
  [x \in {FAdd(One, return_options[o]) : o \in DOMAIN return_options} |->
     Root12(x)]

Years == 30

months == Years * 12

VARIABLES
  initial_investment,   \* number_input "Initial Investment (R)"
  monthly_step,         \* number_input "Starting Monthly Installment (R)"
  escalation_input,     \* number_input "Annual Installment Escalation (%)"
  selected_option,      \* selectbox "Select Return Profile"
  calc,                 \* the run of investment_calc.py
  branded               \* the run of investment_calc_branded_v2.py

vars == <<initial_investment, monthly_step, escalation_input, selected_option,
          calc, branded>>

inputs == <<initial_investment, monthly_step, escalation_input, selected_option>>

\* a page before Calculate is pressed: nothing computed, nothing shown
Idle ==
  [pc |-> "idle", warning |-> FALSE,
   escalation_rate |-> Zero, annual_return |-> Zero,
   m |-> 0, data |-> << >>,
   current_balance |-> Zero, current_monthly_installment |-> Zero,
   total_capital |-> Zero,
   display_df |-> << >>, chart1 |-> << >>, df_melted |-> << >>,
   charts |-> 0]

Init ==
  /\ initial_investment \in InitialChoices
  /\ monthly_step \in MonthlyChoices
  /\ escalation_input \in EscalationChoices
  /\ selected_option \in DOMAIN return_options
  /\ calc = Idle
  /\ branded = Idle

(***************************************************************************)
(* investment_calc.py                                                      *)
(***************************************************************************)
\* A validation that rejects negative amounts only.
Calc_EitherNegative(initial, monthly) ==
  FCmp(initial, Zero) < 0 \/ FCmp(monthly, Zero) < 0

Calc_BothZero(initial, monthly) == IsZero(initial) /\ IsZero(monthly)

\* An escalation applied to the last month of a year instead of the first
\* month of the next one.
Calc_EscalationAtYearEnd(m) == m % 12 = 0

Calc_EscalationDue(m) == m > 1 /\ (m - 1) % 12 = 0

Calc_Escalate(installment, rate) == FMul(installment, FAdd(One, rate))

\* A contribution booked with the wrong sign.
Calc_Withdraw(capital, installment) == FSub(capital, installment)

Calc_Contribute(capital, installment) == FAdd(capital, installment)

\* The nominal monthly rate, annual / 12, instead of the geometric one.
Calc_NominalMonthlyReturn(annual) == FDiv(annual, FromInt(12))

\* The geometric monthly rate with its sign reversed.
Calc_MonthlyDiscount(annual) == FSub(One, PowTwelfth[FAdd(One, annual)])

Calc_MonthlyReturn(annual) == FSub(PowTwelfth[FAdd(One, annual)], One)

\* Growth applied before the contribution of the month is added.
Calc_CompoundBeforeContribution(balance, installment, monthly_return) ==
  FAdd(FMul(balance, FAdd(One, monthly_return)), installment)

Calc_Compound(balance, installment, monthly_return) ==
  FMul(FAdd(balance, installment), FAdd(One, monthly_return))

\* A snapshot taken in the first month of a year instead of the last.
Calc_SnapshotAtYearStart(m) == m % 12 = 1

Calc_SnapshotDue(m) == m % 12 = 0

\* A snapshot that reports the whole balance as the return.
Calc_SnapshotGrossReturn(m, balance, installment, capital) ==
  [Year |-> m \div 12,
   TotalAmount |-> balance,
   MonthlyInstallment |-> installment,
   TotalCapitalContributed |-> capital,
   InvestmentReturn |-> balance]

Calc_Snapshot(m, balance, installment, capital) ==
  [Year |-> m \div 12,
   TotalAmount |-> balance,
   MonthlyInstallment |-> installment,
   TotalCapitalContributed |-> capital,
   InvestmentReturn |-> FSub(balance, capital)]

\* A milestone list on a five-year grid.
Calc_milestonesEveryFive == <<1, 5, 10, 15, 20, 30>>

Calc_milestones == <<1, 3, 5, 10, 20, 30>>

Calc_five_year_intervals == <<5, 10, 15, 20, 25, 30>>

Range(seq) == {seq[i] : i \in 1..Len(seq)}

\* df[df['Year'].isin(years)]
IsIn(df, years) ==
  LET Keep(row) == row.Year \in Range(years) IN SelectSeq(df, Keep)

\* DataFrame.melt: one row per kept year for the first value column, then
\* one row per kept year for the second
Melt(df) ==
  [i \in 1..(2 * Len(df)) |->
     IF i <= Len(df)
     THEN [Year |-> df[i].Year, Component |-> "Total Capital Contributed",
           Amount |-> df[i].TotalCapitalContributed, SortOrder |-> 0]
     ELSE [Year |-> df[i - Len(df)].Year, Component |-> "Investment Return",
           Amount |-> df[i - Len(df)].InvestmentReturn, SortOrder |-> 1]]

\* the button is pressed: validation, then the locals of the loop
Calc_Calculate ==
  /\ calc.pc = "idle"
  /\ IF Calc_BothZero(initial_investment, monthly_step)
     THEN calc' = [calc EXCEPT !.pc = "done", !.warning = TRUE,
                               !.escalation_rate = FDiv(escalation_input, Hundred),
                               !.annual_return = return_options[selected_option]]
     ELSE calc' = [calc EXCEPT !.pc = "loop",
                               !.escalation_rate = FDiv(escalation_input, Hundred),
                               !.annual_return = return_options[selected_option],
                               !.m = 0, !.data = << >>,
                               !.current_balance = initial_investment,
                               !.current_monthly_installment = monthly_step,
                               !.total_capital = initial_investment]
  /\ UNCHANGED <<inputs, branded>>

\* one pass of "for m in range(1, months + 1)"
Calc_LoopStep ==
  /\ calc.pc = "loop"
  /\ calc.m < months
  /\ \E m \in {calc.m + 1} :
     \E installment \in
          {IF Calc_EscalationDue(m)
           THEN Calc_Escalate(calc.current_monthly_installment, calc.escalation_rate)
           ELSE calc.current_monthly_installment} :
     \E capital \in {Calc_Contribute(calc.total_capital, installment)} :
     \E monthly_return \in {Calc_MonthlyReturn(calc.annual_return)} :
     \E balance \in {Calc_Compound(calc.current_balance, installment, monthly_return)} :
       calc' = [calc EXCEPT
                 !.m = m,
                 !.current_monthly_installment = installment,
                 !.total_capital = capital,
                 !.current_balance = balance,
                 !.data = IF Calc_SnapshotDue(m)
                          THEN Append(@, Calc_Snapshot(m, balance, installment, capital))
                          ELSE @]
  /\ UNCHANGED <<inputs, branded>>

\* after the loop: the milestone table and chart, then the stacked chart
Calc_Render ==
  /\ calc.pc = "loop"
  /\ calc.m = months
  /\ \E milestone_df \in {IsIn(calc.data, Calc_milestones)} :
     \E stacked_df \in {IsIn(calc.data, Calc_five_year_intervals)} :
       calc' = [calc EXCEPT
                   !.pc = "done",
                   !.display_df = [i \in 1..Len(milestone_df) |->
                                     [Year |-> milestone_df[i].Year,
                                      TotalAmount |-> FormatRand(milestone_df[i].TotalAmount)]],
                   !.chart1 = [i \in 1..Len(milestone_df) |->
                                 [Year |-> milestone_df[i].Year,
                                  TotalAmount |-> milestone_df[i].TotalAmount]],
                   !.df_melted = Melt(stacked_df),
                   !.charts = 2]
  /\ UNCHANGED <<inputs, branded>>

(***************************************************************************)
(* investment_calc_branded_v2.py                                           *)
(***************************************************************************)
Branded_return_options ==
  [o \in {"Cash (6%)", "Balanced (10%)", "Equity (13%)"} |->
     CASE o = "Cash (6%)" -> Literal(6, 100)
       [] o = "Balanced (10%)" -> Literal(10, 100)
       [] o = "Equity (13%)" -> Literal(13, 100)]

Branded_months == 30 * 12

Branded_BothZero(initial, monthly) == IsZero(initial) /\ IsZero(monthly)

\* An escalation applied to the last month of a year instead of the first
\* month of the next one.
Branded_EscalationAtYearEnd(m) == m % 12 = 0

Branded_EscalationDue(m) == m > 1 /\ (m - 1) % 12 = 0

Branded_Escalate(installment, rate) == FMul(installment, FAdd(One, rate))

Branded_Contribute(capital, installment) == FAdd(capital, installment)

Branded_MonthlyReturn(annual) == FSub(PowTwelfth[FAdd(One, annual)], One)

Branded_Compound(balance, installment, monthly_return) ==
  FMul(FAdd(balance, installment), FAdd(One, monthly_return))

Branded_SnapshotDue(m) == m % 12 = 0

Branded_Snapshot(m, balance, installment, capital) ==
  [Year |-> m \div 12,
   TotalAmount |-> balance,
   MonthlyInstallment |-> installment,
   TotalCapitalContributed |-> capital,
   InvestmentReturn |-> FSub(balance, capital)]

Branded_milestones == <<1, 3, 5, 10, 20, 30>>

Branded_five_year_intervals == <<5, 10, 15, 20, 25, 30>>

Branded_Calculate ==
  /\ branded.pc = "idle"
  /\ IF Branded_BothZero(initial_investment, monthly_step)
     THEN branded' = [branded EXCEPT !.pc = "done", !.warning = TRUE,
                               !.escalation_rate = FDiv(escalation_input, Hundred),
                               !.annual_return = Branded_return_options[selected_option]]
     ELSE branded' = [branded EXCEPT !.pc = "loop",
                               !.escalation_rate = FDiv(escalation_input, Hundred),
                               !.annual_return = Branded_return_options[selected_option],
                               !.m = 0, !.data = << >>,
                               !.current_balance = initial_investment,
                               !.current_monthly_installment = monthly_step,
                               !.total_capital = initial_investment]
  /\ UNCHANGED <<inputs, calc>>

Branded_LoopStep ==
  /\ branded.pc = "loop"
  /\ branded.m < Branded_months
  /\ \E m \in {branded.m + 1} :
     \E installment \in
          {IF Branded_EscalationDue(m)
           THEN Branded_Escalate(branded.current_monthly_installment, branded.escalation_rate)
           ELSE branded.current_monthly_installment} :
     \E capital \in {Branded_Contribute(branded.total_capital, installment)} :
     \E monthly_return \in {Branded_MonthlyReturn(branded.annual_return)} :
     \E balance \in {Branded_Compound(branded.current_balance, installment, monthly_return)} :
       branded' = [branded EXCEPT
                 !.m = m,
                 !.current_monthly_installment = installment,
                 !.total_capital = capital,
                 !.current_balance = balance,
                 !.data = IF Branded_SnapshotDue(m)
                          THEN Append(@, Branded_Snapshot(m, balance, installment, capital))
                          ELSE @]
  /\ UNCHANGED <<inputs, calc>>

Branded_Render ==
  /\ branded.pc = "loop"
  /\ branded.m = Branded_months
  /\ \E milestone_df \in {IsIn(branded.data, Branded_milestones)} :
     \E stacked_df \in {IsIn(branded.data, Branded_five_year_intervals)} :
       branded' = [branded EXCEPT
                   !.pc = "done",
                   !.display_df = [i \in 1..Len(milestone_df) |->
                                     [Year |-> milestone_df[i].Year,
                                      TotalAmount |-> FormatRand(milestone_df[i].TotalAmount)]],
                   !.chart1 = [i \in 1..Len(milestone_df) |->
                                 [Year |-> milestone_df[i].Year,
                                  TotalAmount |-> milestone_df[i].TotalAmount]],
                   !.df_melted = Melt(stacked_df),
                   !.charts = 2]
  /\ UNCHANGED <<inputs, calc>>

(***************************************************************************)
(* The two pages are separate programs with no state in common, so the     *)
(* order in which their steps are taken changes nothing.  The model takes  *)
(* them alternately, investment_calc.py first, so that the two runs can    *)
(* be compared month by month.                                             *)
(***************************************************************************)
Progress(run) ==
  CASE run.pc = "idle" -> 0
    [] run.pc = "loop" -> 1 + run.m
    [] run.pc = "done" -> 2 + months

CalcTurn == Progress(calc) = Progress(branded)

BrandedTurn == Progress(branded) < Progress(calc)

Next ==
  \/ CalcTurn /\ Calc_Calculate
  \/ CalcTurn /\ Calc_LoopStep
  \/ CalcTurn /\ Calc_Render
  \/ BrandedTurn /\ Branded_Calculate
  \/ BrandedTurn /\ Branded_LoopStep
  \/ BrandedTurn /\ Branded_Render

Spec == Init /\ [][Next]_vars

\* every amount a run holds: none is near the limits of the float format
Amounts(run) ==
  {run.current_balance, run.current_monthly_installment, run.total_capital}
    \cup UNION {{run.data[i].TotalAmount, run.data[i].TotalCapitalContributed,
                 run.data[i].InvestmentReturn} : i \in 1..Len(run.data)}

InNormalRange ==
  \A v \in Amounts(calc) \cup Amounts(branded) :
    IsZero(v) \/ (v.e > -1000 /\ v.e < 900 /\ BitLen(v.m) = MantBits)

(***************************************************************************)
(* What the claims speak of, computed from the inputs alone.               *)
(***************************************************************************)
Runs == {calc, branded}

Computed(run) == run.pc = "loop" \/ (run.pc = "done" /\ ~run.warning)

\* the steps of the two pages as pairs <<run before, run after>>
Steps == {<<calc, calc'>>, <<branded, branded'>>}

IsLoopStep(st) == st[1].pc = "loop" /\ st[2].pc = "loop" /\ st[2].m = st[1].m + 1

EscalationRate(percent) == FDiv(percent, Hundred)

\* <<c, c*g, c*g*g, ...>> with n entries: the installment of years 1..n when
\* it grows by the factor g once a year
RECURSIVE Geometric(_, _, _)
Geometric(seq, g, n) ==
  IF Len(seq) >= n THEN seq
  ELSE Geometric(Append(seq, FMul(seq[Len(seq)], g)), g, n)

InstallmentOfYear ==
  [c \in MonthlyChoices |->
    [p \in EscalationChoices |->
      Geometric(<<c>>, FAdd(One, EscalationRate(p)), Years)]]

YearOfMonth(m) == ((m - 1) \div 12) + 1

\* seq extended by the running sums opening + installment(lo) + ... for the
\* months lo..hi, each partial sum rounded as it is formed
RECURSIVE RunningSums(_, _, _, _)
RunningSums(seq, byYear, lo, hi) ==
  IF lo > hi THEN seq
  ELSE IF lo = hi
  THEN Append(seq, FAdd(seq[Len(seq)], byYear[YearOfMonth(lo)]))
  ELSE LET mid == (lo + hi) \div 2
           first == RunningSums(seq, byYear, lo, mid)
       IN IF Len(first) >= 0 THEN RunningSums(first, byYear, mid + 1, hi) ELSE first

\* CapitalAfter[i][c][p][m + 1]: the initial investment i plus every monthly
\* installment of months 1..m
CapitalAfter ==
  [i \in InitialChoices |->
    [c \in MonthlyChoices |->
      [p \in EscalationChoices |->
        RunningSums(<<i>>, InstallmentOfYear[c][p], 1, months)]]]

FAbs(x) == [x EXCEPT !.s = 0]

\* x * 2^k, exact
Scale(x, k) == IF IsZero(x) THEN x ELSE [x EXCEPT !.e = @ + k]

\* |x - y| <= 2^-48 * |y|
Close(x, y) == FLe(FAbs(FSub(x, y)), Scale(FAbs(y), -48))

OpeningOfYear(run, k) ==
  IF k = 1 THEN initial_investment ELSE run.data[k - 1].TotalAmount

(***************************************************************************)
(* C1: Calculate pressed with initial investment 0 and starting            *)
(* installment 0, whatever the escalation and the return profile: the      *)
(* warning is shown and there is no projection; the loop does not run, no  *)
(* snapshot is created, no table and no chart is rendered.                 *)
(***************************************************************************)
WarningAndNoProjection ==
  \A run \in Runs :
    (run.pc # "idle" /\ IsZero(initial_investment) /\ IsZero(monthly_step))
      => /\ run.warning
         /\ run.pc = "done"
         /\ run.m = 0
         /\ run.data = << >>
         /\ run.display_df = << >>
         /\ run.chart1 = << >>
         /\ run.df_melted = << >>
         /\ run.charts = 0

WarningShown ==
  /\ IsZero(initial_investment) /\ IsZero(monthly_step)
  /\ ~IsZero(escalation_input)
  /\ calc.pc = "done" /\ calc.warning
  /\ branded.pc = "done" /\ branded.warning

(***************************************************************************)
(* C2: the installment is multiplied by (1 + escalation rate) once at the  *)
(* start of each of months 13, 25, ..., 349 and at no other month, so the  *)
(* installment in force in month m, and recorded in the snapshot of year   *)
(* k, is the starting installment times (1 + escalation)^(k-1), k the year *)
(* of month m.                                                             *)
(***************************************************************************)
EscalationEveryTwelfthMonth ==
  \A run \in Runs :
    Computed(run) =>
      LET byYear == InstallmentOfYear[monthly_step][escalation_input]
      IN /\ run.m >= 1 =>
              run.current_monthly_installment = byYear[YearOfMonth(run.m)]
         /\ run.m = 0 => run.current_monthly_installment = monthly_step
         /\ \A k \in 1..Len(run.data) :
              run.data[k].MonthlyInstallment = byYear[k]

EscalatedThirtyYears ==
  /\ calc.pc = "done" /\ branded.pc = "done"
  /\ ~IsZero(monthly_step) /\ ~IsZero(escalation_input)
  /\ Len(calc.data) = Years
  /\ FCmp(calc.data[Years].MonthlyInstallment, Scale(monthly_step, 2)) > 0

(***************************************************************************)
(* C3, as amended: for every month m of 1..360 the balance after month m   *)
(* is (balance before + installment of month m) * (1 + r) with             *)
(* r = (1 + annual rate)^(1/12) - 1, the balance before month 1 is the     *)
(* initial investment, and the Total Amount of the snapshot of year k is   *)
(* the balance after month 12k.  Twelve months of (1 + r) compound to      *)
(* (1 + annual rate) up to the rounding of the float arithmetic: with no   *)
(* contributions, each year's total is within 2^-48 (relative) of the      *)
(* year's opening balance times (1 + annual rate).                         *)
(***************************************************************************)
MonthlyRate(annual) == FSub(PowTwelfth[FAdd(One, annual)], One)

CompoundingStep(st) ==
  /\ (st[1].pc = "idle" /\ st[2].pc = "loop")
       => st[2].current_balance = initial_investment
  /\ IsLoopStep(st)
       => /\ st[2].current_balance =
                FMul(FAdd(st[1].current_balance, st[2].current_monthly_installment),
                     FAdd(One, MonthlyRate(return_options[selected_option])))
          /\ st[2].m % 12 = 0
               => /\ Len(st[2].data) = st[2].m \div 12
                  /\ st[2].data[st[2].m \div 12].TotalAmount = st[2].current_balance

YearCompounds(st, Same(_, _)) ==
  (IsLoopStep(st) /\ st[2].m % 12 = 0 /\ IsZero(monthly_step)
     /\ Len(st[2].data) = st[2].m \div 12)
    => Same(st[2].current_balance,
            FMul(OpeningOfYear(st[2], st[2].m \div 12),
                 FAdd(One, return_options[selected_option])))

GeometricMonthlyCompounding ==
  [][\A st \in Steps :
       CompoundingStep(st) /\ YearCompounds(st, Close)]_vars

YearOfLumpSumCompounded ==
  /\ IsZero(monthly_step) /\ ~IsZero(initial_investment)
  /\ calc.pc = "done" /\ branded.pc = "done"
  /\ Len(calc.data) = Years
  /\ calc.data[1].TotalAmount # FMul(initial_investment,
                                     FAdd(One, return_options[selected_option]))

\* C3 as stated: twelve months compound to exactly (1 + annual rate)
Exactly(x, y) == x = y

GeometricMonthlyCompoundingExact ==
  [][\A st \in Steps :
       CompoundingStep(st) /\ YearCompounds(st, Exactly)]_vars

(***************************************************************************)
(* C4, as amended: initial investment 0, starting installment 1000,        *)
(* escalation 0% and the 6% profile give a year-1 Total Amount of          *)
(* 12,386.53 when rounded to two decimal places (1,238,653 cents).         *)
(***************************************************************************)
ExampleInputs ==
  /\ IsZero(initial_investment)
  /\ monthly_step = FromInt(1000)
  /\ IsZero(escalation_input)
  /\ selected_option = "Cash (6%)"

YearOneOfExample(cents) ==
  (ExampleInputs /\ Computed(calc) /\ Len(calc.data) >= 1)
    => Cents(calc.data[1].TotalAmount) = BigFromInt(cents)

ExampleYearOneTotal == YearOneOfExample(1238653)

ExampleProjected ==
  /\ ExampleInputs
  /\ calc.pc = "done" /\ Len(calc.data) = Years
  /\ calc.display_df[1] =
       [Year |-> 1,
        TotalAmount |-> <<"R", " ", "1", "2", ",", "3", "8", "6", ".", "5", "3">>]

\* C4 as stated: the year-1 total of the example rounds to 12,335.56
ExampleYearOneTotalAsStated == YearOneOfExample(1233556)

(***************************************************************************)
(* C5: in every snapshot of a projection, Investment Return is Total       *)
(* Amount minus Total Capital Contributed, and Total Capital Contributed   *)
(* is the initial investment plus every monthly installment of months      *)
(* 1..12*year.  Snapshots are only ever appended, so while the loop runs   *)
(* the subtraction is recomputed for the newest one, and for all thirty    *)
(* once the projection is complete.                                        *)
(***************************************************************************)
NewSnapshots(run) ==
  IF run.pc = "done" THEN 1..Len(run.data)
  ELSE {k \in {Len(run.data)} : k >= 1 /\ run.m = 12 * k}

ReturnIsTotalMinusCapital ==
  \A run \in Runs :
    Computed(run) =>
      LET capital == CapitalAfter[initial_investment][monthly_step][escalation_input]
      IN /\ \A k \in 1..Len(run.data) :
              run.data[k].TotalCapitalContributed = capital[12 * k + 1]
         /\ \A k \in NewSnapshots(run) :
              run.data[k].InvestmentReturn =
                FSub(run.data[k].TotalAmount, run.data[k].TotalCapitalContributed)

ReturnEarned ==
  /\ calc.pc = "done" /\ branded.pc = "done"
  /\ Len(calc.data) = Years
  /\ ~IsZero(initial_investment) /\ ~IsZero(monthly_step) /\ ~IsZero(escalation_input)
  /\ FCmp(calc.data[Years].InvestmentReturn, calc.data[Years].TotalCapitalContributed) > 0

(***************************************************************************)
(* C6: Total Capital Contributed never decreases: the running              *)
(* total_capital does not decrease from one month to the next, and in the  *)
(* finished sequence capital(j) <= capital(k) for all years j < k.         *)
(***************************************************************************)
CapitalMonotone(run) ==
  \A j \in 1..Len(run.data) : \A k \in 1..Len(run.data) :
    j < k => FLe(run.data[j].TotalCapitalContributed,
                 run.data[k].TotalCapitalContributed)

CapitalNeverDecreases ==
  [][\A st \in Steps :
       /\ FLe(st[1].total_capital, st[2].total_capital)
       /\ (st[1].pc = "loop" /\ st[2].pc = "done") => CapitalMonotone(st[2])]_vars

CapitalGrew ==
  /\ calc.pc = "done" /\ branded.pc = "done"
  /\ Len(calc.data) = Years
  /\ FCmp(calc.data[1].TotalCapitalContributed,
          calc.data[Years].TotalCapitalContributed) < 0
  /\ FCmp(initial_investment, calc.data[1].TotalCapitalContributed) < 0

(***************************************************************************)
(* C7: when an input is non-zero there is exactly one snapshot per         *)
(* simulated year, in order: after month m the sequence holds floor(m/12)  *)
(* snapshots, the i-th of year i, and the finished run holds the thirty    *)
(* snapshots of years 1..30.                                               *)
(***************************************************************************)
OneSnapshotPerYear ==
  \A run \in Runs :
    (run.pc # "idle" /\ ~(IsZero(initial_investment) /\ IsZero(monthly_step)))
      => /\ Computed(run)
         /\ Len(run.data) = run.m \div 12
         /\ \A i \in 1..Len(run.data) : run.data[i].Year = i
         /\ run.pc = "done" =>
              /\ run.m = 360
              /\ [i \in 1..Len(run.data) |-> run.data[i].Year] = [i \in 1..30 |-> i]

ThirtySnapshots ==
  /\ calc.pc = "done" /\ ~calc.warning /\ Len(calc.data) = 30
  /\ branded.pc = "done" /\ ~branded.warning /\ Len(branded.data) = 30

(***************************************************************************)
(* C8: on the same inputs the two scripts take the same branch (warning    *)
(* or projection) and, when they compute, build the same snapshots: same   *)
(* Year, Total Amount, Monthly Installment, Total Capital Contributed and  *)
(* Investment Return for every year.  The runs are compared whenever they  *)
(* have taken the same number of steps.                                    *)
(***************************************************************************)
SameCalculation ==
  Progress(calc) = Progress(branded)
    => /\ calc.warning = branded.warning
       /\ calc.pc = branded.pc
       /\ Len(calc.data) = Len(branded.data)
       /\ \A k \in 1..Len(calc.data) :
            /\ calc.data[k].Year = branded.data[k].Year
            /\ calc.data[k].TotalAmount = branded.data[k].TotalAmount
            /\ calc.data[k].MonthlyInstallment = branded.data[k].MonthlyInstallment
            /\ calc.data[k].TotalCapitalContributed
                 = branded.data[k].TotalCapitalContributed
            /\ calc.data[k].InvestmentReturn = branded.data[k].InvestmentReturn

BothProjected ==
  /\ calc.pc = "done" /\ branded.pc = "done"
  /\ Len(calc.data) = Years /\ Len(branded.data) = Years
  /\ ~IsZero(monthly_step) /\ ~IsZero(escalation_input)
  /\ branded.data[Years].MonthlyInstallment # monthly_step

(***************************************************************************)
(* C9: after a finished projection the milestone table and the milestone   *)
(* chart hold exactly the snapshots of years 1, 3, 5, 10, 20 and 30, each  *)
(* once with that year's Total Amount; the capital-vs-return breakdown     *)
(* holds exactly the years 5, 10, 15, 20, 25 and 30, each split into its   *)
(* Total Capital Contributed and its Investment Return.                    *)
(***************************************************************************)
MilestoneYears == <<1, 3, 5, 10, 20, 30>>

BreakdownYears == <<5, 10, 15, 20, 25, 30>>

RowsOf(rows, year, component) ==
  {i \in 1..Len(rows) : rows[i].Year = year /\ rows[i].Component = component}

MilestonesAndBreakdown ==
  \A run \in Runs :
    (run.pc = "done" /\ ~run.warning) =>
      /\ run.charts = 2
      /\ Len(run.display_df) = 6 /\ Len(run.chart1) = 6
      /\ \A i \in 1..6 :
           /\ run.display_df[i].Year = MilestoneYears[i]
           /\ run.display_df[i].TotalAmount
                = FormatRand(run.data[MilestoneYears[i]].TotalAmount)
           /\ run.chart1[i].Year = MilestoneYears[i]
           /\ run.chart1[i].TotalAmount = run.data[MilestoneYears[i]].TotalAmount
      /\ Len(run.df_melted) = 12
      /\ \A i \in 1..12 : run.df_melted[i].Year \in Range(BreakdownYears)
      /\ \A y \in Range(BreakdownYears) :
           /\ \E i \in 1..12 :
                /\ RowsOf(run.df_melted, y, "Total Capital Contributed") = {i}
                /\ run.df_melted[i].Amount = run.data[y].TotalCapitalContributed
           /\ \E i \in 1..12 :
                /\ RowsOf(run.df_melted, y, "Investment Return") = {i}
                /\ run.df_melted[i].Amount = run.data[y].InvestmentReturn

Rendered ==
  /\ calc.pc = "done" /\ calc.charts = 2 /\ Len(calc.display_df) = 6
  /\ branded.pc = "done" /\ branded.charts = 2 /\ Len(branded.df_melted) = 12
  /\ calc.display_df[1].TotalAmount # calc.display_df[6].TotalAmount

(***************************************************************************)
(* C10: with an input non-zero, every snapshot has Investment Return >= 0  *)
(* (Total Amount >= Total Capital Contributed), and after every month the  *)
(* running balance is at least the running total_capital.                  *)
(***************************************************************************)
ReturnNeverNegative ==
  \A run \in Runs :
    Computed(run) =>
      /\ FLe(run.total_capital, run.current_balance)
      /\ \A k \in 1..Len(run.data) :
           /\ FLe(Zero, run.data[k].InvestmentReturn)
           /\ FLe(run.data[k].TotalCapitalContributed, run.data[k].TotalAmount)

ReturnPositive ==
  /\ calc.pc = "done" /\ branded.pc = "done"
  /\ Len(calc.data) = Years
  /\ \A k \in 1..Years : FCmp(Zero, calc.data[k].InvestmentReturn) < 0
====
